---- MODULE Spec2Model ----
(***************************************************************************)
(* A model of camel-cup (src/src/main.rs): the Track with its stacks of    *)
(* camels, the Pyramid (dice pool), Game::new (round setup), Game::roll    *)
(* and the exhaustive enumeration of main().                               *)
(*                                                                         *)
(* A Vec is a sequence whose index 1 is the Vec's index 0 (the bottom of a *)
(* stack); the array of spaces is a function on 0..15.                     *)
(***************************************************************************)
EXTENDS Integers, Sequences, FiniteSets, TLC

VARIABLES
    pc,             \* position of the program
    dice,           \* Pyramid.dice
    spaces,         \* Track.spaces of the track (game.track)
    before,         \* Track.spaces as they were when the last call was made
    call,           \* the last call made and what it was given / returned
    rolls,          \* the colors Pyramid::roll returned since new() / reset()
    drawn,          \* the numbers of the rolls the loop of Game::new has placed
    n,              \* number of calls made: roll calls of a pool lifetime, advance calls
    k,              \* number of outcomes the loop of main() has gone through
    outcome,        \* the outcome of the last iteration of that loop
    simulation,     \* the `simulation` track of the last iteration
    loser_tallies   \* the HashMap of main()

vars == <<pc, dice, spaces, before, call, rolls, drawn, n, k, outcome, simulation, loser_tallies>>

----------------------------------------------------------------------------
(* CamelColor *)

RacingColors == {"Red", "Green", "Yellow", "Blue", "Purple"}

CamelColor == RacingColors \cup {"Black", "White"}

\* Option::None, where a color is expected
None == "None"

NumSpaces == 16

NumDice == 5

\* gen_range(1..=3), and `numbers` of main()
MinNumber == 1

MaxNumber == 3

Numbers == MinNumber..MaxNumber

----------------------------------------------------------------------------
(* Bounds of the model *)

\* advance calls made on one track in SpecTrack
MaxAdvances == 2

\* Pyramid::roll calls followed within one pool lifetime in SpecPyramid
MaxRollCalls == 7

\* post-setup tracks the enumeration of main() is run from in SpecEnum
NumEnumTracks == 4

----------------------------------------------------------------------------
(* Vec helpers *)

\* iter().position(pred) on a Vec: the first index, as a 1-based index, or 0
FirstIndex(stack, color) ==
    IF \E i \in 1..Len(stack) : stack[i] = color
    THEN CHOOSE i \in 1..Len(stack) :
            /\ stack[i] = color
            /\ \A j \in 1..(i - 1) : stack[j] # color
    ELSE 0

\* Vec::contains
Contains(stack, color) == \E i \in 1..Len(stack) : stack[i] = color

MutSplitOffUnit(stack, at) ==
    [j \in 1..(Len(stack) - at + 1) |-> stack[Len(stack) - j + 1]]

\* what Vec::split_off(at) returns: the elements from `at` to the end
\* (`at` is the 1-based index of the first element that goes)
SplitOffUnit(stack, at) == SubSeq(stack, at, Len(stack))

MutSplitOffKeep(stack, at) == stack

MutSplitOffKeepRev(stack, at) == [j \in 1..(at - 1) |-> stack[at - j]]

\* what Vec::split_off(at) leaves in the Vec
SplitOffKeep(stack, at) == SubSeq(stack, 1, at - 1)

MutVecAppend(stack, unit) == unit \o stack

\* Vec::append: other's elements after self's
VecAppend(stack, unit) == stack \o unit

\* Vec::push
VecPush(stack, color) == Append(stack, color)

----------------------------------------------------------------------------
(* Track *)

\* Track::new
TrackNew == [i \in 0..(NumSpaces - 1) |-> <<>>]

\* advance, lines 41-44: is there a space that contains the color
AdvanceFound(sp, color) == \E i \in 0..(NumSpaces - 1) : Contains(sp[i], color)

\* advance, lines 41-44: the first space that contains the color
AdvanceSource(sp, color) ==
    CHOOSE i \in 0..(NumSpaces - 1) :
        /\ Contains(sp[i], color)
        /\ \A j \in 0..(i - 1) : ~Contains(sp[j], color)

MutAdvanceDestination(source, number) == source + number + 1

\* advance, line 53
AdvanceDestination(source, number) == source + number

\* advance panics: .expect("couldn't find camel"), or the index of line 54
AdvancePanics(sp, color, number) ==
    IF ~AdvanceFound(sp, color) THEN TRUE
    ELSE AdvanceDestination(AdvanceSource(sp, color), number) >= NumSpaces

\* the spaces when advance returns (it does not panic)
Advance(sp, color, number) ==
    LET source == AdvanceSource(sp, color)
        stack == sp[source]
        stack_position == FirstIndex(stack, color)
        unit == SplitOffUnit(stack, stack_position)
        destination == AdvanceDestination(source, number)
        split == [sp EXCEPT ![source] = SplitOffKeep(stack, stack_position)]
    IN  [split EXCEPT ![destination] = VecAppend(split[destination], unit)]

\* the spaces when advance panics: untouched when the camel is not found;
\* after split_off when the destination is out of the array
AdvancePanicked(sp, color, number) ==
    IF ~AdvanceFound(sp, color) THEN sp
    ELSE LET source == AdvanceSource(sp, color)
         IN  [sp EXCEPT ![source] =
                SplitOffKeep(sp[source], FirstIndex(sp[source], color))]

MutLosing(sp) ==
    IF \E i \in 0..(NumSpaces - 1) : Len(sp[i]) > 0
    THEN LET first == CHOOSE i \in 0..(NumSpaces - 1) :
                        /\ Len(sp[i]) > 0
                        /\ \A j \in 0..(i - 1) : Len(sp[j]) = 0
         IN  sp[first][Len(sp[first])]
    ELSE None

MutLosingStart(sp) == IF Len(sp[0]) > 0 THEN sp[0][1] ELSE None

MutLosingRev(sp) ==
    IF \E i \in 0..(NumSpaces - 1) : Len(sp[i]) > 0
    THEN LET first == CHOOSE i \in 0..(NumSpaces - 1) :
                        /\ Len(sp[i]) > 0
                        /\ \A j \in (i + 1)..(NumSpaces - 1) : Len(sp[j]) = 0
         IN  sp[first][1]
    ELSE None

\* Track::losing
Losing(sp) ==
    IF \E i \in 0..(NumSpaces - 1) : Len(sp[i]) > 0
    THEN LET first == CHOOSE i \in 0..(NumSpaces - 1) :
                        /\ Len(sp[i]) > 0
                        /\ \A j \in 0..(i - 1) : Len(sp[j]) = 0
         IN  sp[first][1]
    ELSE None

----------------------------------------------------------------------------
(* Pyramid *)

MutDiceVec == <<"Red", "Green", "Yellow", "Blue", "Black">>

\* the vec![...] of Pyramid::new and Pyramid::reset
DiceVec == <<"Red", "Green", "Yellow", "Blue", "Purple">>

\* slice.shuffle(rng): any order of the same elements
Shuffle(v) ==
    {s \in [1..Len(v) -> {v[i] : i \in 1..Len(v)}] :
        \A i, j \in 1..Len(v) : i # j => s[i] # s[j]}

\* Pyramid::new
PyramidNew == Shuffle(DiceVec)

MutPyramidReset == IF dice = <<>> THEN Shuffle(DiceVec) ELSE {dice}

\* Pyramid::reset
PyramidReset == Shuffle(DiceVec)

MutPopColor(d) == d[1]

\* Vec::pop: the last element, and what is left
PopColor(d) == d[Len(d)]

MutPopRest(d) == SubSeq(d, 1, Len(d) - 2)

PopRest(d) == SubSeq(d, 1, Len(d) - 1)

\* a Roll
Roll(color, number) == [color |-> color, number |-> number]

NoCall == [op |-> "none", color |-> None, number |-> 0]

Call(op, color, number) == [op |-> op, color |-> color, number |-> number]

----------------------------------------------------------------------------
(* Game::new *)

MutSetupSlot(number) == number

\* line 78: track.spaces[roll.number - 1].push(roll.color)
SetupSlot(number) == number - 1

Place(sp, roll) ==
    [sp EXCEPT ![SetupSlot(roll.number)] = VecPush(sp[SetupSlot(roll.number)], roll.color)]

\* the track Game::new builds when the pool was shuffled to `d` (popped
\* from the end) and the i-th roll drew the number nums[i]
RECURSIVE SetupFrom(_, _, _, _)
SetupFrom(sp, d, nums, i) ==
    IF Len(d) = 0 THEN sp
    ELSE SetupFrom(Place(sp, Roll(PopColor(d), nums[i])), PopRest(d), nums, i + 1)

SetupTracks ==
    {SetupFrom(TrackNew, d, nums, 1) : d \in PyramidNew, nums \in [1..NumDice -> Numbers]}

----------------------------------------------------------------------------
(* main(): the outcomes and the loop over them *)

\* line 156: the vec `colors`
Colors == <<"Red", "Green", "Blue", "Yellow", "Purple">>

\* line 163
num_colors == Len(Colors)

\* line 166: the array `numbers`
NumbersArray == <<1, 2, 3>>

RECURSIVE Factorial(_)
Factorial(m) == IF m <= 1 THEN 1 ELSE m * Factorial(m - 1)

RECURSIVE Power(_, _)
Power(b, e) == IF e = 0 THEN 1 ELSE b * Power(b, e - 1)

\* a sequence without its i-th element
Without(v, i) == SubSeq(v, 1, i - 1) \o SubSeq(v, i + 1, Len(v))

\* Itertools::permutations(len): the idx-th item (from 0); the items come
\* in lexicographic order of the positions in `v`
RECURSIVE PermutationAt(_, _)
PermutationAt(v, idx) ==
    IF Len(v) = 0 THEN <<>>
    ELSE LET f == Factorial(Len(v) - 1)
             first == (idx \div f) + 1
         IN  <<v[first]>> \o PermutationAt(Without(v, first), idx % f)

\* line 164: color_orders, its length and its idx-th item
NumColorOrders == Factorial(num_colors)

ColorOrderAt(idx) == PermutationAt(Colors, idx)

\* lines 167-169: multi_cartesian_product of num_colors copies of
\* `numbers`: its length and its idx-th item (the last position runs fastest)
NumNumberRolls == Power(Len(NumbersArray), num_colors)

NumberRollAt(idx) ==
    [i \in 1..num_colors |->
        NumbersArray[((idx \div Power(Len(NumbersArray), num_colors - i))
                        % Len(NumbersArray)) + 1]]

\* lines 171-173: outcomes = color_orders x number_rolls (the second runs
\* fastest), collected in a Vec
OutcomesLen == NumColorOrders * NumNumberRolls

OutcomeAt(idx) ==
    <<ColorOrderAt(idx \div NumNumberRolls), NumberRollAt(idx % NumNumberRolls)>>

NoOutcome == <<>>

\* lines 175-181
LoserTalliesNew == [c \in RacingColors |-> 0]

\* lines 185-189 from iteration `roll` (from 1) on: the simulation when the
\* loop ends, or when an advance panics
RECURSIVE SimulateFrom(_, _, _)
SimulateFrom(sim, o, roll) ==
    IF roll > num_colors THEN [panicked |-> FALSE, track |-> sim]
    ELSE IF AdvancePanics(sim, o[1][roll], o[2][roll])
         THEN [panicked |-> TRUE, track |-> AdvancePanicked(sim, o[1][roll], o[2][roll])]
         ELSE SimulateFrom(Advance(sim, o[1][roll], o[2][roll]), o, roll + 1)

MutSimulate(track, o) ==
    SimulateFrom(IF outcome = NoOutcome THEN track ELSE simulation, o, 1)

\* line 184 and the loop of lines 185-189
Simulate(track, o) == SimulateFrom(track, o, 1)

MutTallyPool(tallies, losing) ==
    IF losing = None \/ losing = dice[Len(dice)] THEN tallies
    ELSE [tallies EXCEPT ![losing] = @ + 1]

MutTallyFresh(tallies, losing) ==
    IF losing = None THEN tallies
    ELSE [LoserTalliesNew EXCEPT ![losing] = tallies[losing] + 1]

MutTally(tallies, losing) ==
    IF losing = None \/ losing = "Purple" THEN tallies
    ELSE [tallies EXCEPT ![losing] = @ + 1]

\* lines 190-193, losing a key of the map or None
Tally(tallies, losing) ==
    IF losing = None THEN tallies
    ELSE [tallies EXCEPT ![losing] = @ + 1]

MutIterationPanics(track, o) == FALSE

\* one iteration of the loop of line 183 panics: an advance does, or the
\* unwrap of line 191 (the losing camel is no key of the map)
IterationPanics(track, o) ==
    IF Simulate(track, o).panicked THEN TRUE
    ELSE Losing(Simulate(track, o).track) \notin (DOMAIN LoserTalliesNew \cup {None})

\* some setups of Game::new, as <<the pool Pyramid::new shuffled (popped from
\* the end), the numbers rolled>>
EnumSetups ==
    << <<<<"Purple", "Yellow", "Blue", "Green", "Red">>, <<1, 2, 3, 3, 3>>>>,
       <<<<"Red", "Purple", "Blue", "Yellow", "Green">>, <<1, 1, 1, 1, 1>>>>,
       <<<<"Purple", "Yellow", "Blue", "Green", "Red">>, <<3, 3, 3, 3, 3>>>>,
       <<<<"Red", "Blue", "Green", "Yellow", "Purple">>, <<1, 2, 3, 2, 3>>>>,
       <<<<"Red", "Green", "Blue", "Yellow", "Purple">>, <<2, 2, 2, 2, 2>>>>,
       <<<<"Green", "Red", "Purple", "Blue", "Yellow">>, <<2, 1, 1, 3, 1>>>>,
       <<<<"Blue", "Purple", "Red", "Yellow", "Green">>, <<3, 3, 2, 2, 1>>>> >>

\* two of the pools Pyramid::reset can leave in the Game that Game::new returns
EnumPools == {DiceVec, <<"Purple", "Blue", "Yellow", "Green", "Red">>}

\* the tracks Game::new returns for the first NumEnumTracks of them
EnumTracks ==
    {SetupFrom(TrackNew, EnumSetups[i][1], EnumSetups[i][2], 1) :
        i \in 1..(IF NumEnumTracks < Len(EnumSetups) THEN NumEnumTracks ELSE Len(EnumSetups))}

----------------------------------------------------------------------------
(* SpecTrack: the operations of a Track, on the empty track of Track::new  *)
(* and on every track Game::new can return.                                *)

InitTrack ==
    /\ \/ pc = "new" /\ spaces = TrackNew
       \/ pc = "ready" /\ spaces \in SetupTracks
    /\ dice = DiceVec
    /\ before = spaces
    /\ call = NoCall
    /\ rolls = <<>>
    /\ drawn = <<>>
    /\ n = 0
    /\ k = 0
    /\ outcome = NoOutcome
    /\ simulation = TrackNew
    /\ loser_tallies = LoserTalliesNew

TrackAdvance(color, number) ==
    /\ pc \in {"new", "ready"}
    /\ n < MaxAdvances
    /\ ~AdvancePanics(spaces, color, number)
    /\ spaces' = Advance(spaces, color, number)
    /\ before' = spaces
    /\ call' = Call("advance", color, number)
    /\ n' = n + 1
    /\ UNCHANGED <<pc, dice, rolls, drawn, k, outcome, simulation, loser_tallies>>

TrackAdvancePanic(color, number) ==
    /\ pc \in {"new", "ready"}
    /\ n < MaxAdvances
    /\ AdvancePanics(spaces, color, number)
    /\ spaces' = AdvancePanicked(spaces, color, number)
    /\ before' = spaces
    /\ call' = Call("advance", color, number)
    /\ pc' = "panicked"
    /\ n' = n + 1
    /\ UNCHANGED <<dice, rolls, drawn, k, outcome, simulation, loser_tallies>>

TrackLosing ==
    /\ pc \in {"new", "ready"}
    /\ n < MaxAdvances
    /\ call' = Call("losing", Losing(spaces), 0)
    /\ before' = spaces
    /\ UNCHANGED <<pc, dice, spaces, rolls, drawn, n, k, outcome, simulation, loser_tallies>>

NextTrack ==
    \/ \E color \in CamelColor, number \in Numbers : TrackAdvance(color, number)
    \/ \E color \in CamelColor, number \in Numbers : TrackAdvancePanic(color, number)
    \/ TrackLosing

SpecTrack == InitTrack /\ [][NextTrack]_vars

----------------------------------------------------------------------------
(* SpecPyramid: a Pyramid on its own: roll and reset, from Pyramid::new.   *)

InitPyramid ==
    /\ pc = "pool"
    /\ dice \in PyramidNew
    /\ spaces = TrackNew
    /\ before = TrackNew
    /\ call = NoCall
    /\ rolls = <<>>
    /\ drawn = <<>>
    /\ n = 0
    /\ k = 0
    /\ outcome = NoOutcome
    /\ simulation = TrackNew
    /\ loser_tallies = LoserTalliesNew

\* Pyramid::roll, the pool not empty
PyramidRoll(number) ==
    /\ pc = "pool"
    /\ n < MaxRollCalls
    /\ Len(dice) > 0
    /\ dice' = PopRest(dice)
    /\ call' = Call("roll", PopColor(dice), number)
    /\ rolls' = Append(rolls, PopColor(dice))
    /\ n' = n + 1
    /\ UNCHANGED <<pc, spaces, before, drawn, k, outcome, simulation, loser_tallies>>

\* Pyramid::roll, the pool empty: `?` returns None at line 123
PyramidRollNone ==
    /\ pc = "pool"
    /\ n < MaxRollCalls
    /\ Len(dice) = 0
    /\ call' = Call("roll", None, 0)
    /\ n' = n + 1
    /\ UNCHANGED <<pc, dice, spaces, before, rolls, drawn, k, outcome, simulation, loser_tallies>>

\* Pyramid::reset, on a pool of any size (call.number records the size)
PoolReset ==
    /\ pc = "pool"
    /\ dice' \in PyramidReset
    /\ call' = Call("reset", None, Len(dice))
    /\ rolls' = <<>>
    /\ n' = 0
    /\ UNCHANGED <<pc, spaces, before, drawn, k, outcome, simulation, loser_tallies>>

NextPyramid ==
    \/ \E number \in Numbers : PyramidRoll(number)
    \/ PyramidRollNone
    \/ PoolReset

SpecPyramid == InitPyramid /\ [][NextPyramid]_vars

----------------------------------------------------------------------------
(* SpecSetup: Game::new, one roll of its loop at a time.                   *)

InitSetup ==
    /\ pc = "setup"
    /\ dice \in PyramidNew
    /\ spaces = TrackNew
    /\ before = TrackNew
    /\ call = NoCall
    /\ rolls = <<>>
    /\ drawn = <<>>
    /\ n = 0
    /\ k = 0
    /\ outcome = NoOutcome
    /\ simulation = TrackNew
    /\ loser_tallies = LoserTalliesNew

\* lines 77-79: pyramid.roll() returns a roll, which is placed
SetupRoll(number) ==
    /\ pc = "setup"
    /\ Len(dice) > 0
    /\ dice' = PopRest(dice)
    /\ call' = Call("roll", PopColor(dice), number)
    /\ rolls' = Append(rolls, PopColor(dice))
    /\ drawn' = Append(drawn, number)
    /\ before' = spaces
    /\ spaces' = Place(spaces, Roll(PopColor(dice), number))
    /\ n' = n + 1
    /\ UNCHANGED <<pc, k, outcome, simulation, loser_tallies>>

\* line 77: pyramid.roll() returns None, the loop ends
SetupDrained ==
    /\ pc = "setup"
    /\ Len(dice) = 0
    /\ call' = Call("roll", None, 0)
    /\ before' = spaces
    /\ n' = n + 1
    /\ pc' = "reset"
    /\ UNCHANGED <<dice, spaces, rolls, drawn, k, outcome, simulation, loser_tallies>>

\* lines 80-81: pyramid.reset(), and the Game is returned
SetupReset ==
    /\ pc = "reset"
    /\ dice' \in PyramidReset
    /\ call' = Call("reset", None, 0)
    /\ before' = spaces
    /\ rolls' = <<>>
    /\ drawn' = <<>>
    /\ n' = 0
    /\ pc' = "ready"
    /\ UNCHANGED <<spaces, k, outcome, simulation, loser_tallies>>

NextSetup ==
    \/ \E number \in Numbers : SetupRoll(number)
    \/ SetupDrained
    \/ SetupReset

SpecSetup == InitSetup /\ [][NextSetup]_vars

\* Game::new from the pools of EnumPools
InitLive == InitSetup /\ dice \in EnumPools

\* Game::new runs as straight-line code: a step that can be taken is taken
LiveSetup == InitLive /\ [][NextSetup]_vars /\ WF_vars(NextSetup)

----------------------------------------------------------------------------
(* SpecGame: Game::roll called again and again on the Game that Game::new  *)
(* returned.                                                               *)

InitGame ==
    /\ pc = "game"
    /\ spaces \in EnumTracks
    /\ dice \in PyramidReset
    /\ before = spaces
    /\ call = NoCall
    /\ rolls = <<>>
    /\ drawn = <<>>
    /\ n = 0
    /\ k = 0
    /\ outcome = NoOutcome
    /\ simulation = TrackNew
    /\ loser_tallies = LoserTalliesNew

\* lines 85-92: pyramid.roll() returns a roll, advance returns
GameRoll(number) ==
    /\ pc = "game"
    /\ n < MaxRollCalls
    /\ Len(dice) > 0
    /\ ~AdvancePanics(spaces, PopColor(dice), number)
    /\ dice' = PopRest(dice)
    /\ spaces' = Advance(spaces, PopColor(dice), number)
    /\ before' = spaces
    /\ call' = Call("roll", PopColor(dice), number)
    /\ rolls' = Append(rolls, PopColor(dice))
    /\ n' = n + 1
    /\ UNCHANGED <<pc, drawn, k, outcome, simulation, loser_tallies>>

\* lines 85-90: pyramid.roll() returns a roll, advance panics
GameRollPanic(number) ==
    /\ pc = "game"
    /\ n < MaxRollCalls
    /\ Len(dice) > 0
    /\ AdvancePanics(spaces, PopColor(dice), number)
    /\ dice' = PopRest(dice)
    /\ spaces' = AdvancePanicked(spaces, PopColor(dice), number)
    /\ before' = spaces
    /\ call' = Call("roll", PopColor(dice), number)
    /\ rolls' = Append(rolls, PopColor(dice))
    /\ n' = n + 1
    /\ pc' = "panicked"
    /\ UNCHANGED <<drawn, k, outcome, simulation, loser_tallies>>

\* line 85: pyramid.roll() returns None, and `?` returns it
GameRollNone ==
    /\ pc = "game"
    /\ n < MaxRollCalls
    /\ Len(dice) = 0
    /\ before' = spaces
    /\ call' = Call("roll", None, 0)
    /\ n' = n + 1
    /\ UNCHANGED <<pc, dice, spaces, rolls, drawn, k, outcome, simulation, loser_tallies>>

NextGame ==
    \/ \E number \in Numbers : GameRoll(number)
    \/ \E number \in Numbers : GameRollPanic(number)
    \/ GameRollNone

SpecGame == InitGame /\ [][NextGame]_vars

----------------------------------------------------------------------------
(* SpecEnum: main() after Game::new: the loop over the outcomes, one       *)
(* iteration at a time, then the println! of the tallies.                  *)

InitEnum ==
    /\ pc = "enum"
    /\ spaces \in EnumTracks
    /\ dice \in EnumPools
    /\ before = spaces
    /\ call = NoCall
    /\ rolls = <<>>
    /\ drawn = <<>>
    /\ n = 0
    /\ k = 0
    /\ outcome = NoOutcome
    /\ simulation = TrackNew
    /\ loser_tallies = LoserTalliesNew

\* lines 183-194: one iteration that ends
EnumBranch ==
    /\ pc = "enum"
    /\ k < OutcomesLen
    /\ ~IterationPanics(spaces, OutcomeAt(k))
    /\ outcome' = OutcomeAt(k)
    /\ simulation' = Simulate(spaces, OutcomeAt(k)).track
    /\ loser_tallies' = Tally(loser_tallies, Losing(simulation'))
    /\ k' = k + 1
    /\ UNCHANGED <<pc, dice, spaces, before, call, rolls, drawn, n>>

\* lines 183-189: one iteration that panics; the process ends
EnumPanic ==
    /\ pc = "enum"
    /\ k < OutcomesLen
    /\ IterationPanics(spaces, OutcomeAt(k))
    /\ outcome' = OutcomeAt(k)
    /\ simulation' = Simulate(spaces, OutcomeAt(k)).track
    /\ pc' = "panicked"
    /\ UNCHANGED <<dice, spaces, before, call, rolls, drawn, n, k, loser_tallies>>

\* line 196: the loop is over, the tallies are printed
EnumDone ==
    /\ pc = "enum"
    /\ k = OutcomesLen
    /\ pc' = "done"
    /\ UNCHANGED <<dice, spaces, before, call, rolls, drawn, n, k, outcome,
                   simulation, loser_tallies>>

NextEnum == EnumBranch \/ EnumPanic \/ EnumDone

SpecEnum == InitEnum /\ [][NextEnum]_vars

----------------------------------------------------------------------------
(* What the claims speak of *)

Slots == 0..(NumSpaces - 1)

\* the places (slot, stack position) where a color stands on a track
PlacesOf(sp, color) ==
    UNION {{<<i, p>> : p \in {q \in 1..Len(sp[i]) : sp[i][q] = color}} : i \in Slots}

\* the slot and the stack position of a color that stands on the track once
SlotOf(sp, color) ==
    CHOOSE i \in Slots : \E p \in 1..Len(sp[i]) : sp[i][p] = color

PosOf(sp, color) ==
    CHOOSE p \in 1..Len(sp[SlotOf(sp, color)]) : sp[SlotOf(sp, color)][p] = color

RECURSIVE SumLen(_, _)
SumLen(sp, i) == IF i < 0 THEN 0 ELSE Len(sp[i]) + SumLen(sp, i - 1)

\* the number of markers on a track
Markers(sp) == SumLen(sp, NumSpaces - 1)

\* the last call was an advance that returned
Advanced == call.op = "advance" /\ pc = "ready"

\* A stands directly above B
DirectlyAbove(sp, A, B) ==
    \E i \in Slots : \E p \in 1..(Len(sp[i]) - 1) : sp[i][p] = B /\ sp[i][p + 1] = A

\* C1: on every track reached from Game::new by advance calls that returned,
\* each of the five racing camels stands in exactly one slot at exactly one
\* stack position, no other marker is on the track, so there are 5 markers.
C1_Conservation ==
    pc = "ready" =>
        /\ \A c \in RacingColors : Cardinality(PlacesOf(spaces, c)) = 1
        /\ \A c \in CamelColor \ RacingColors : PlacesOf(spaces, c) = {}
        /\ Markers(spaces) = NumDice

C1_Witness ==
    /\ Advanced
    /\ n >= 2
    /\ \E i \in Slots : i > MaxNumber /\ Len(spaces[i]) >= 2
    /\ \E i \in Slots : i < MaxNumber /\ Len(spaces[i]) >= 1

\* C4: advance(color, d) of a camel at position p of slot s, s + d <= 15,
\* takes the block p..top out of slot s and puts it, in the same order, on
\* top of what slot s + d held.
C4_BlockMove ==
    Advanced =>
        LET c == call.color
            s == SlotOf(before, c)
            p == PosOf(before, c)
            t == s + call.number
            top == Len(before[s])
            base == Len(before[t])
        IN  /\ Len(spaces[s]) = p - 1
            /\ Len(spaces[t]) = base + (top - p + 1)
            /\ \A j \in p..top : spaces[t][base + (j - p) + 1] = before[s][j]

C4_Witness ==
    /\ Advanced
    /\ LET c == call.color
           s == SlotOf(before, c)
           p == PosOf(before, c)
       IN  /\ p > 1
           /\ Len(before[s]) > p
           /\ Len(before[s + call.number]) > 0

\* C5: losing() returns the bottom marker of the lowest non-empty slot, no
\* result exactly when every slot is empty, and leaves the track as it was.
C5_Losing ==
    call.op = "losing" =>
        /\ spaces = before
        /\ (call.color = None) <=> (\A i \in Slots : before[i] = <<>>)
        /\ call.color # None =>
             \E i \in Slots :
                /\ before[i] # <<>>
                /\ \A j \in 0..(i - 1) : before[j] = <<>>
                /\ call.color = before[i][1]

C5_Witness ==
    /\ call.op = "losing"
    /\ Len(before[0]) = NumDice
    /\ call.color = before[0][1]

\* C10, as the claim states it: A directly above B before a move that moves
\* A (A is the named camel or stands above it), then A is directly above B
\* after the move.
C10_AsClaimed ==
    Advanced =>
        LET s == SlotOf(before, call.color)
            p == PosOf(before, call.color)
        IN  \A q \in 2..Len(before[s]) :
                q >= p => DirectlyAbove(spaces, before[s][q], before[s][q - 1])

\* C10, amended: A directly above B before a move that moves B (B is the
\* named camel or stands above it, so A moves too), then A is directly
\* above B after the move; the camel directly below the named camel stays
\* behind in the source slot.
C10_StackOrder ==
    Advanced =>
        LET s == SlotOf(before, call.color)
            p == PosOf(before, call.color)
        IN  \A q \in 2..Len(before[s]) :
                LET A == before[s][q]
                    B == before[s][q - 1]
                IN  /\ q - 1 >= p => DirectlyAbove(spaces, A, B)
                    /\ q = p => /\ ~DirectlyAbove(spaces, A, B)
                                /\ SlotOf(spaces, B) = s

C10_Witness ==
    /\ Advanced
    /\ \E A, B \in RacingColors :
        /\ DirectlyAbove(before, A, B)
        /\ B = call.color
        /\ PosOf(before, B) > 1
        /\ Len(before[SlotOf(before, B) + call.number]) > 0
        /\ DirectlyAbove(spaces, A, B)

\* C6: within one pool lifetime the calls of roll() return the five racing
\* colors, each once, each with a distance in 1..3: the i-th call, i <= 5,
\* returns a result; the sixth and every later call returns no result and
\* leaves the pool empty.
C6_PoolLifetime ==
    pc = "pool" =>
        /\ Len(rolls) = (IF n <= NumDice THEN n ELSE NumDice)
        /\ Len(rolls) + Len(dice) = NumDice
        /\ \A i \in 1..Len(rolls) :
            /\ rolls[i] \in RacingColors
            /\ \A j \in 1..Len(rolls) : i # j => rolls[i] # rolls[j]
        /\ call.op = "roll" /\ n <= NumDice =>
            call.color = rolls[n] /\ call.number \in Numbers
        /\ n = NumDice => {rolls[i] : i \in 1..NumDice} = RacingColors
        /\ n > NumDice => call = Call("roll", None, 0) /\ dice = <<>>

C6_Witness ==
    /\ pc = "pool"
    /\ n > NumDice + 1
    /\ call = Call("roll", None, 0)
    /\ Len(rolls) = NumDice

\* the index of the setup roll that drew a color
DrawOf(color) == CHOOSE i \in 1..Len(rolls) : rolls[i] = color

\* C7: when the loop of Game::new has ended, every racing camel stands in
\* slot d - 1, d in 1..3 the distance of its own roll, slots 3..15 are
\* empty, and in each slot a camel drawn earlier stands lower; the reset
\* that follows leaves the track as it is.
C7_Setup ==
    /\ pc = "reset" =>
        /\ \A c \in RacingColors :
            /\ \E i \in 1..Len(rolls) : rolls[i] = c
            /\ drawn[DrawOf(c)] \in Numbers
            /\ PlacesOf(spaces, c) # {}
            /\ SlotOf(spaces, c) = drawn[DrawOf(c)] - 1
        /\ \A i \in Slots : i >= MaxNumber => spaces[i] = <<>>
        /\ \A i \in Slots : \A p, q \in 1..Len(spaces[i]) :
            p < q => DrawOf(spaces[i][p]) < DrawOf(spaces[i][q])
        /\ Markers(spaces) = NumDice
    /\ pc = "ready" => spaces = before /\ spaces \in SetupTracks

C7_Witness ==
    /\ pc = "ready"
    /\ Len(spaces[0]) = 1
    /\ Len(spaces[1]) = 1
    /\ Len(spaces[2]) = 3

\* the sum of the five values of the tally
TallySum ==
    loser_tallies["Red"] + loser_tallies["Green"] + loser_tallies["Blue"]
        + loser_tallies["Yellow"] + loser_tallies["Purple"]

\* C2: for every track of Game::new and every branch, every advance of the
\* branch has its destination within the 16 slots: the enumeration never
\* ends in the panic of an advance.
C2_NoOverflow == pc # "panicked"

\* C3: when the enumeration is over, the five values of the tally sum to
\* 29,160 = 5! x 3^5: each branch was counted once, for one camel.
C3_TallySum ==
    pc = "done" => TallySum = 29160 /\ TallySum = Factorial(NumDice) * Power(MaxNumber, NumDice)

C3_Witness ==
    /\ pc = "done"
    /\ Len(spaces[0]) = NumDice
    /\ \A c \in RacingColors : loser_tallies[c] > 0

\* the position of a color in `colors`
ColorIndex(color) == CHOOSE i \in 1..Len(Colors) : Colors[i] = color

\* the place of an outcome in the lexicographic order of the pairs
\* (permutation of `colors`, five numbers of 1..3)
OrderRank(order) ==
    LET inv(i) == Cardinality({j \in (i + 1)..Len(order) :
                                ColorIndex(order[j]) < ColorIndex(order[i])})
        term[i \in 0..Len(order)] ==
            IF i = 0 THEN 0 ELSE term[i - 1] + inv(i) * Factorial(Len(order) - i)
    IN  term[Len(order)]

NumbersRank(nums) ==
    LET term[i \in 0..Len(nums)] ==
            IF i = 0 THEN 0 ELSE term[i - 1] * MaxNumber + (nums[i] - MinNumber)
    IN  term[Len(nums)]

\* C8: the enumeration goes through exactly 29,160 branches before it ends,
\* the j-th of them the j-th pair (permutation of the five racing colors,
\* five distances of 1..3) in lexicographic order, so each pair once; its
\* five advances name the five camels once each, in the permutation's order.
C8_AllBranches ==
    /\ pc \in {"done", "panicked"} => k = 29160
    /\ outcome # NoOutcome =>
        /\ Len(outcome[1]) = NumDice
        /\ {outcome[1][i] : i \in 1..NumDice} = RacingColors
        /\ \A i \in 1..NumDice : outcome[2][i] \in Numbers
        /\ OrderRank(outcome[1]) * 243 + NumbersRank(outcome[2])
            = (IF pc = "panicked" THEN k ELSE k - 1)

\* the track of the example: Red on slot 0, Green on slot 1, and on slot 2
\* Blue below Yellow below Purple
ExampleTrack ==
    [i \in Slots |->
        IF i = 0 THEN <<"Red">>
        ELSE IF i = 1 THEN <<"Green">>
        ELSE IF i = 2 THEN <<"Blue", "Yellow", "Purple">>
        ELSE <<>>]

\* C9: from the example track the 29,160 branches give Red a count above
\* Green's, and Blue a count above Yellow's and above Purple's.
C9_Example ==
    pc = "done" /\ spaces = ExampleTrack =>
        /\ k = 29160
        /\ loser_tallies["Red"] > loser_tallies["Green"]
        /\ loser_tallies["Blue"] > loser_tallies["Yellow"]
        /\ loser_tallies["Blue"] > loser_tallies["Purple"]

C9_Witness ==
    /\ pc = "done"
    /\ spaces = ExampleTrack
    /\ loser_tallies["Red"] = 13734

\* the tally of a full enumeration from the track of EnumSetups[i], for the
\* setups from which the enumeration ends
ExpectedTally(i) ==
    IF i = 1 THEN [Red |-> 13734, Green |-> 7892, Blue |-> 2944, Yellow |-> 2623, Purple |-> 1967]
    ELSE IF i = 2 THEN [Red |-> 3104, Green |-> 11744, Blue |-> 4504, Yellow |-> 6164, Purple |-> 3644]
    ELSE IF i = 4 THEN [Red |-> 2493, Green |-> 2579, Blue |-> 3932, Yellow |-> 6987, Purple |-> 13169]
    ELSE IF i = 6 THEN [Red |-> 2460, Green |-> 3866, Blue |-> 11000, Yellow |-> 6535, Purple |-> 5299]
    ELSE [Red |-> 6987, Green |-> 2579, Blue |-> 13169, Yellow |-> 2493, Purple |-> 3932]

\* C11: the final tally is a function of the post-setup track alone: every
\* run that ends from the same track, whatever the dice pool of the game,
\* ends with the same five counts (the ones ExpectedTally lists).
C11_Deterministic ==
    pc = "done" =>
        \A i \in {1, 2, 4, 6, 7} :
            spaces = SetupFrom(TrackNew, EnumSetups[i][1], EnumSetups[i][2], 1)
                => loser_tallies = ExpectedTally(i)

C11_Witness ==
    /\ pc = "done"
    /\ dice # DiceVec
    /\ spaces = SetupFrom(TrackNew, EnumSetups[4][1], EnumSetups[4][2], 1)
    /\ loser_tallies = ExpectedTally(4)

\* C12: an advance that fails (camel not found, or destination 16 or more)
\* ends the enumeration there: the branch that fails is not counted, no
\* step follows, so no tally is printed; a branch that was gone through is
\* never one in which an advance fails, and the tally is printed only after
\* all the branches.
C12_FailFast ==
    /\ pc \in {"enum", "done"} /\ outcome # NoOutcome =>
        ~SimulateFrom(spaces, outcome, 1).panicked
    /\ pc = "done" => k = OutcomesLen
    /\ pc = "panicked" =>
        /\ SimulateFrom(spaces, outcome, 1).panicked
        /\ k < OutcomesLen
        /\ TallySum = k
        /\ ~ENABLED NextEnum

C12_Witness ==
    /\ pc = "panicked"
    /\ k > 100
    /\ TallySum = k

\* C13: advance(color, d) changes the source slot s and the destination
\* slot s + d only: the markers below the camel stay in s in their order,
\* the markers of s + d stay in their order below the block that arrives,
\* every other slot is as it was.
C13_Frame ==
    Advanced =>
        LET c == call.color
            s == SlotOf(before, c)
            p == PosOf(before, c)
            t == s + call.number
        IN  /\ spaces[s] = SubSeq(before[s], 1, p - 1)
            /\ Len(spaces[t]) >= Len(before[t])
            /\ SubSeq(spaces[t], 1, Len(before[t])) = before[t]
            /\ \A i \in Slots \ {s, t} : spaces[i] = before[i]

C13_Witness ==
    /\ Advanced
    /\ LET s == SlotOf(before, call.color)
           t == s + call.number
       IN  /\ PosOf(before, call.color) = 2
           /\ Len(spaces[s]) = 1
           /\ Len(before[t]) = 2
           /\ \E i \in Slots \ {s, t} : spaces[i] # <<>>

\* C15: on every track reached from Game::new by advance calls that
\* returned, losing() returns a racing camel, which is a key of the tally.
C15_LosingRacing ==
    pc = "ready" =>
        /\ Losing(spaces) \in RacingColors
        /\ Losing(spaces) \in DOMAIN LoserTalliesNew
        /\ call.op = "losing" => call.color \in RacingColors

C15_Witness ==
    /\ pc = "ready"
    /\ call.op = "losing"
    /\ n >= 1
    /\ spaces[0] = <<>>
    /\ spaces[1] = <<>>
    /\ call.color \in RacingColors

\* C19: no advance lowers the slot of any camel, and after n advances (each
\* of 1..3) from a track of Game::new every camel stands in a slot of index
\* at most 2 + 3n.
C19_Forward ==
    /\ Advanced =>
        \A i \in Slots : \A p \in 1..Len(before[i]) : SlotOf(spaces, before[i][p]) >= i
    /\ pc = "ready" =>
        \A i \in Slots : i > (MaxNumber - 1) + MaxNumber * n => spaces[i] = <<>>

C19_Witness ==
    /\ Advanced
    /\ n = 2
    /\ spaces[(MaxNumber - 1) + MaxNumber * n] # <<>>

\* the colors of the dice of a pool
DiceSet(d) == {d[i] : i \in 1..Len(d)}

\* C17: after reset(), whatever the pool held, the pool holds five dice,
\* one of each racing color; a reset that follows a reset leaves the same
\* set of dice.
C17_Reset ==
    /\ [](call.op = "reset" => Len(dice) = NumDice /\ DiceSet(dice) = RacingColors)
    /\ [][call.op = "reset" /\ call'.op = "reset" =>
            Len(dice') = Len(dice) /\ DiceSet(dice') = DiceSet(dice)]_vars

C17_Witness ==
    /\ pc = "pool"
    /\ call.op = "reset"
    /\ call.number \in 1..(NumDice - 1)
    /\ Len(dice) = NumDice

\* C14: every branch is simulated from the post-setup track, whatever the
\* branches before it did to their clones, and no step of the enumeration
\* changes the track or the dice pool of the game.
C14_Isolation ==
    /\ [](spaces = before)
    /\ [](outcome # NoOutcome => simulation = SimulateFrom(spaces, outcome, 1).track)
    /\ [][spaces' = spaces /\ dice' = dice]_vars

C14_Witness ==
    /\ pc = "done"
    /\ spaces = before
    /\ dice = DiceVec
    /\ outcome = OutcomeAt(OutcomesLen - 1)
    /\ simulation = SimulateFrom(before, outcome, 1).track
    /\ simulation # spaces

\* C16: a processed branch raises exactly one count by exactly 1 and leaves
\* the other four; any other step leaves the tally; so no count ever
\* decreases, and after k branches the counts sum to k.
C16_TallyGrows ==
    /\ [](TallySum = k)
    /\ [][/\ k' \in {k, k + 1}
          /\ k' = k + 1 =>
                \E c \in RacingColors :
                    loser_tallies' = [loser_tallies EXCEPT ![c] = @ + 1]
          /\ k' = k => loser_tallies' = loser_tallies
          /\ \A c \in RacingColors : loser_tallies'[c] >= loser_tallies[c]]_vars

C16_Witness ==
    /\ pc = "enum"
    /\ k = 1000
    /\ TallySum = 1000
    /\ Cardinality({c \in RacingColors : loser_tallies[c] > 0}) >= 3

\* C18: Game::new ends: its loop makes five rolls that return a result, one
\* per racing camel, the sixth roll returns no result and ends the loop
\* without a failure, and the Game is returned.
C18_Terminates ==
    /\ <>(pc = "ready")
    /\ [](pc \in {"setup", "reset", "ready"})
    /\ [](pc = "setup" =>
            /\ n = Len(rolls)
            /\ n <= NumDice
            /\ call.op = "roll" => call.color \in RacingColors)
    /\ [](pc = "reset" =>
            /\ n = NumDice + 1
            /\ Len(rolls) = NumDice
            /\ {rolls[i] : i \in 1..Len(rolls)} = RacingColors
            /\ call = Call("roll", None, 0))

C18_Witness ==
    /\ pc = "reset"
    /\ n = NumDice + 1
    /\ Len(rolls) = NumDice
    /\ call = Call("roll", None, 0)
    /\ dice = <<>>

\* C20: each Game::roll on a pool that is not empty draws one die and
\* advances the camel of that die by the number of that die; the camels
\* named are pairwise different, so after five calls that returned a roll
\* each racing camel was named once; every later call returns no result and
\* leaves the track and the empty pool as they are.
C20_Scoring ==
    /\ pc = "game" =>
        /\ Len(rolls) = (IF n <= NumDice THEN n ELSE NumDice)
        /\ Len(dice) = NumDice - Len(rolls)
        /\ \A i, j \in 1..Len(rolls) : i # j => rolls[i] # rolls[j]
        /\ DiceSet(dice) = RacingColors \ {rolls[i] : i \in 1..Len(rolls)}
        /\ n \in 1..NumDice =>
            /\ call.op = "roll"
            /\ call.color = rolls[n]
            /\ call.number \in Numbers
            /\ spaces = Advance(before, call.color, call.number)
            /\ SlotOf(spaces, call.color) = SlotOf(before, call.color) + call.number
        /\ n = NumDice => {rolls[i] : i \in 1..NumDice} = RacingColors
        /\ n > NumDice =>
            /\ call = Call("roll", None, 0)
            /\ spaces = before
            /\ dice = <<>>
    /\ pc = "panicked" =>
        /\ call.color = rolls[Len(rolls)]
        /\ call.color \notin DiceSet(dice)
        /\ AdvancePanics(before, call.color, call.number)

C20_Witness ==
    /\ pc = "game"
    /\ n = NumDice + 2
    /\ Len(rolls) = NumDice
    /\ call = Call("roll", None, 0)
    /\ spaces = before
    /\ Markers(spaces) = NumDice
    /\ \E i \in Slots : i >= 2 * MaxNumber /\ spaces[i] # <<>>

====
